---- MODULE Spec2Model ----
(***************************************************************************)
(* The request pipeline of the API gateway (src/gateway.py): the sliding   *)
(* window rate limiter, the per-service circuit breaker and                *)
(* APIGateway.process_request / handle_service_request.                    *)
(*                                                                         *)
(* Time is the value of time.time() in whole seconds.  Each action is one  *)
(* complete call of a method of the source.  The variable "last" records   *)
(* what the most recent call did (its arguments, its return value, and the *)
(* calls it made on its collaborators), so that properties of a call can   *)
(* be stated on the state the call leaves behind.                          *)
(***************************************************************************)
EXTENDS Integers, Sequences, FiniteSets, TLC

VARIABLES
    now,                 \* time.time(), in seconds
    request_timestamps,  \* gateway.py:15, client -> list of timestamps
    admitted,            \* history: client -> times of all admitted checks
    circuit_breakers,    \* APIGateway.circuit_breakers, service -> breaker
    streak,              \* history: service -> number of record_failure calls
                         \* since the last record_success (or since creation)
    last,                \* the most recent call and what it did
    threads              \* request thread -> where it is in its call, and the
                         \* local variables of that call

vars == <<now, request_timestamps, admitted, circuit_breakers, streak, last,
          threads>>

----------------------------------------------------------------------------
(* Bounds of the model *)

MaxTime == 22          \* the clock of the pipeline and breaker models stops here
MaxFailures == 6       \* cap on failure_count in the breaker model
MaxTimeRL == 61        \* the clock of the rate limiter model stops here

(* Program constants *)

REQUEST_LIMIT_PER_MINUTE == 10   \* gateway.py:14 (default), app.py:19
WINDOW_SECONDS == 60             \* gateway.py:138
failure_threshold == 3           \* gateway.py:19, default of CircuitBreaker
reset_timeout_seconds == 10      \* gateway.py:19, default of CircuitBreaker

None == 0 - 1                    \* Python's None for last_failure_time

\* the keys of APIGateway.mock_services
mock_services == {"users", "products"}

\* service names a request may carry: the registered ones and an unknown one
ServiceNames == mock_services \cup {"orders"}

Clients == {"10.0.0.1", "10.0.0.2"}

\* advances of the clock between calls: exactly the reset timeout, and just over
TickDeltas == {reset_timeout_seconds, reset_timeout_seconds + 1}

\* advances of the clock in the rate limiter model: half a window, and the
\* steps that land exactly on and just past the end of a window
TickDeltasRL == {30, 31}

\* constructor arguments tried for failure_threshold in the breaker model
Thresholds == 1..failure_threshold

----------------------------------------------------------------------------
(* class CircuitBreaker *)

\* CircuitBreaker.__init__
CircuitBreaker(threshold, timeout) ==
    [state |-> "CLOSED", failure_count |-> 0, last_failure_time |-> None,
     failure_threshold |-> threshold, reset_timeout_seconds |-> timeout]

\* CircuitBreaker.record_success
record_success(cb) ==
    [cb EXCEPT !.state = "CLOSED", !.failure_count = 0,
               !.last_failure_time = None]

\* record_failure with the threshold test written ">" (opens one failure late)
record_failure_late(cb, t) ==
    LET c1 == [cb EXCEPT !.failure_count = @ + 1, !.last_failure_time = t]
    IN  IF c1.state = "CLOSED" /\ c1.failure_count > c1.failure_threshold
        THEN [c1 EXCEPT !.state = "OPEN"]
        ELSE IF c1.state = "HALF-OPEN"
             THEN [c1 EXCEPT !.state = "OPEN"]
             ELSE c1

\* record_failure without its HALF-OPEN branch
record_failure_no_trial(cb, t) ==
    LET c1 == [cb EXCEPT !.failure_count = @ + 1, !.last_failure_time = t]
    IN  IF c1.state = "CLOSED" /\ c1.failure_count >= c1.failure_threshold
        THEN [c1 EXCEPT !.state = "OPEN"]
        ELSE c1

\* CircuitBreaker.record_failure, called at time t
record_failure(cb, t) ==
    LET c1 == [cb EXCEPT !.failure_count = @ + 1, !.last_failure_time = t]
    IN  IF c1.state = "CLOSED" /\ c1.failure_count >= c1.failure_threshold
        THEN [c1 EXCEPT !.state = "OPEN"]
        ELSE IF c1.state = "HALF-OPEN"
             THEN [c1 EXCEPT !.state = "OPEN"]
             ELSE c1

\* CircuitBreaker.is_open raises TypeError when it subtracts None
is_open_raises(cb) ==
    cb.state = "OPEN" /\ cb.last_failure_time = None

\* is_open with the timeout test written ">="
is_open_eager(cb, t) ==
    IF cb.state = "OPEN"
    THEN [cb |-> IF t - cb.last_failure_time >= cb.reset_timeout_seconds
                 THEN [cb EXCEPT !.state = "HALF-OPEN"]
                 ELSE cb,
          answer |-> TRUE]
    ELSE [cb |-> cb, answer |-> FALSE]

\* is_open answering for the state it leaves behind instead of the state it
\* found, and only once the timeout has elapsed
is_open_answers_late(cb, t) ==
    IF cb.state = "OPEN"
    THEN [cb |-> IF t - cb.last_failure_time > cb.reset_timeout_seconds
                 THEN [cb EXCEPT !.state = "HALF-OPEN"]
                 ELSE cb,
          answer |-> t - cb.last_failure_time > cb.reset_timeout_seconds]
    ELSE [cb |-> cb, answer |-> FALSE]

\* is_open answering open for every state but CLOSED
is_open_blocks_trial(cb, t) ==
    IF cb.state = "OPEN"
    THEN [cb |-> IF t - cb.last_failure_time > cb.reset_timeout_seconds
                 THEN [cb EXCEPT !.state = "HALF-OPEN"]
                 ELSE cb,
          answer |-> TRUE]
    ELSE [cb |-> cb, answer |-> cb.state = "HALF-OPEN"]

\* is_open answering for the state it leaves behind: the call that moves the
\* breaker to HALF-OPEN lets its own request through
is_open_trial_at_once(cb, t) ==
    IF cb.state = "OPEN"
    THEN [cb |-> IF t - cb.last_failure_time > cb.reset_timeout_seconds
                 THEN [cb EXCEPT !.state = "HALF-OPEN"]
                 ELSE cb,
          answer |-> ~(t - cb.last_failure_time > cb.reset_timeout_seconds)]
    ELSE [cb |-> cb, answer |-> FALSE]

\* CircuitBreaker.is_open called at time t: the breaker it leaves behind and
\* the value it returns
is_open(cb, t) ==
    IF cb.state = "OPEN"
    THEN [cb |-> IF t - cb.last_failure_time > cb.reset_timeout_seconds
                 THEN [cb EXCEPT !.state = "HALF-OPEN"]
                 ELSE cb,
          answer |-> TRUE]
    ELSE [cb |-> cb, answer |-> FALSE]

----------------------------------------------------------------------------
(* Python values: a dict of strings is a set of <<key, value>> pairs with    *)
(* one pair per key; "stamp" is the time.time() value the gateway stored in  *)
(* the dict (None when it stored none); isdict is isinstance(x, dict).       *)

NoPayload == [isdict |-> FALSE, kv |-> {}, stamp |-> None]

Dict(pairs) == [isdict |-> TRUE, kv |-> pairs, stamp |-> None]

\* key in d
Has(d, k) == \E e \in d.kv : e[1] = k

\* d[key]
Get(d, k) == (CHOOSE e \in d.kv : e[1] = k)[2]

\* d[key] = v
Put(d, k, v) == [d EXCEPT !.kv = {e \in @ : e[1] # k} \cup {<<k, v>>}]

\* del d[key]
Del(d, k) == [d EXCEPT !.kv = {e \in @ : e[1] # k}]

\* the f-string of gateway.py:325
DefaultMessage(service_name) ==
    CASE service_name = "users" -> "An error occurred with users service."
      [] service_name = "products" -> "An error occurred with products service."
      [] service_name = "orders" -> "An error occurred with orders service."
      [] OTHER -> "An error occurred with gateway_error service."

\* the f-string of gateway.py:206
UnavailableMessage(service_name) ==
    CASE service_name = "users" -> "Users Service Unavailable"
      [] service_name = "products" -> "Products Service Unavailable"
      [] OTHER -> "Orders Service Unavailable"

\* the f-string of gateway.py:247
CouldNotProcessMessage(service_name) ==
    CASE service_name = "users" -> "Gateway could not process request to users."
      [] service_name = "products" -> "Gateway could not process request to products."
      [] OTHER -> "Gateway could not process request to orders."

\* the f-string of gateway.py:82
InternalToken(api_key) ==
    CASE api_key = "key-1" -> "internal_token_for_key-1"
      [] OTHER -> "internal_token_for_key-2"

\* _transform_response adding the gateway metadata to error payloads as well
_transform_response_stamps_errors(service_name, response_data, status_code, t) ==
    IF response_data.isdict
    THEN [Put(response_data, "gateway_metadata", "MyAPIGateway")
             EXCEPT !.stamp = t]
    ELSE response_data

\* APIGateway._transform_response, called at time t; the status code is
\* returned as it came
_transform_response(service_name, response_data, status_code, t) ==
    IF 200 <= status_code /\ status_code < 400 /\ response_data.isdict
    THEN IF Has(response_data, "status") \/ Has(response_data, "data")
         THEN [Put(response_data, "gateway_metadata", "MyAPIGateway")
                  EXCEPT !.stamp = t]
         ELSE response_data
    ELSE IF status_code >= 400 /\ response_data.isdict
    THEN LET d1 == IF ~Has(response_data, "status")
                   THEN Put(response_data, "status", "error")
                   ELSE response_data
             d2 == IF ~Has(d1, "message") /\ Has(d1, "error")
                   THEN Del(Put(d1, "message", Get(d1, "error")), "error")
                   ELSE d1
         IN  IF ~Has(d2, "message")
             THEN Put(d2, "message", DefaultMessage(service_name))
             ELSE d2
    ELSE response_data

\* str.lower() on the header names the model uses
Lower(name) ==
    CASE name \in {"X-API-KEY", "X-Api-Key"} -> "x-api-key"
      [] OTHER -> name

\* headers.get(name) on the inbound headers, which are the request headers of
\* Flask (gateway.py:72, 79, 100): the lookup ignores case; "" stands for the
\* None of a missing header, which "if api_key" treats like an empty value
HeadersGet(headers, name) ==
    IF \E e \in headers.kv : Lower(e[1]) = Lower(name)
    THEN (CHOOSE e \in headers.kv : Lower(e[1]) = Lower(name))[2]
    ELSE ""

\* _transform_request deleting the key under its first casing only
_transform_request_headers_one_casing(headers) ==
    LET h1 == IF HeadersGet(headers, "X-API-KEY") # ""
              THEN Put(headers, "X-Internal-Auth",
                       InternalToken(HeadersGet(headers, "X-API-KEY")))
              ELSE headers
        h2 == IF ~Has(h1, "User-Agent")
              THEN Put(h1, "User-Agent", "API-Gateway/1.0")
              ELSE h1
    IN  IF Has(h2, "X-API-KEY") THEN Del(h2, "X-API-KEY")
        ELSE h2

\* the headers APIGateway._transform_request returns: a dict copy of the
\* inbound headers, changed
_transform_request_headers(headers) ==
    LET h1 == IF HeadersGet(headers, "X-API-KEY") # ""
              THEN Put(headers, "X-Internal-Auth",
                       InternalToken(HeadersGet(headers, "X-API-KEY")))
              ELSE headers
        h2 == IF ~Has(h1, "User-Agent")
              THEN Put(h1, "User-Agent", "API-Gateway/1.0")
              ELSE h1
    IN  IF Has(h2, "X-API-KEY") THEN Del(h2, "X-API-KEY")
        ELSE IF Has(h2, "X-Api-Key") THEN Del(h2, "X-Api-Key")
        ELSE h2

\* the body APIGateway._transform_request returns, called at time t
_transform_request_json(json_data, t) ==
    IF json_data.isdict /\ json_data.kv # {}
    THEN [Put(json_data, "gateway_processed_timestamp", "time")
             EXCEPT !.stamp = t]
    ELSE json_data

----------------------------------------------------------------------------
(* The record of the most recent call *)

NoResult == [kind |-> "none", payload |-> NoPayload, status |-> 0]

NoCall ==
    [op |-> "init", arg |-> "", answer |-> FALSE, status_code |-> 0,
     response_data |-> NoPayload, invoked |-> FALSE, result |-> NoResult,
     successes |-> 0, failures |-> 0, logs |-> <<>>, raised |-> FALSE,
     was |-> "", handler_headers |-> NoPayload, handler_json |-> NoPayload,
     headers |-> NoPayload, db_ok |-> TRUE, rows |-> <<>>,
     start_time |-> None]

\* the threads that serve requests at the same time
Threads == {"T1", "T2"}

\* a thread that is serving no request; of a thread that is: "pc" is the
\* statement it executes next, "arg" the service or client of its call, "was"
\* the breaker state its is_open call found, "result" what its handler
\* does, and current_time, kept and failure_count its local values
Idle ==
    [pc |-> "idle", arg |-> "", was |-> "", result |-> NoResult,
     start_time |-> None, current_time |-> None, kept |-> <<>>,
     failure_count |-> 0]

----------------------------------------------------------------------------
(* The breaker model: the methods of CircuitBreaker called in any order *)

InitCB ==
    /\ now = 0
    /\ request_timestamps = [c \in Clients |-> <<>>]
    /\ admitted = [c \in Clients |-> <<>>]
    /\ circuit_breakers \in
           [mock_services ->
               {CircuitBreaker(th, reset_timeout_seconds) : th \in Thresholds}]
    /\ streak = [s \in mock_services |-> 0]
    /\ last = NoCall
    /\ threads = [th \in Threads |-> Idle]

Tick(d) ==
    /\ now + d <= MaxTime
    /\ now' = now + d
    /\ last' = [NoCall EXCEPT !.op = "tick"]
    /\ UNCHANGED <<threads, request_timestamps, admitted, circuit_breakers, streak>>

RecordSuccess(s) ==
    /\ circuit_breakers' =
           [circuit_breakers EXCEPT ![s] = record_success(@)]
    /\ streak' = [streak EXCEPT ![s] = 0]
    /\ last' = [NoCall EXCEPT !.op = "record_success", !.arg = s,
                              !.was = circuit_breakers[s].state,
                              !.successes = 1]
    /\ UNCHANGED <<threads, now, request_timestamps, admitted>>

RecordFailure(s) ==
    /\ circuit_breakers[s].failure_count < MaxFailures
    /\ circuit_breakers' =
           [circuit_breakers EXCEPT ![s] = record_failure(@, now)]
    /\ streak' = [streak EXCEPT ![s] = @ + 1]
    /\ last' = [NoCall EXCEPT !.op = "record_failure", !.arg = s,
                              !.was = circuit_breakers[s].state,
                              !.failures = 1]
    /\ UNCHANGED <<threads, now, request_timestamps, admitted>>

IsOpen(s) ==
    /\ ~is_open_raises(circuit_breakers[s])
    /\ circuit_breakers' =
           [circuit_breakers EXCEPT ![s] = is_open(@, now).cb]
    /\ last' = [NoCall EXCEPT !.op = "is_open", !.arg = s,
                              !.was = circuit_breakers[s].state,
                              !.answer = is_open(circuit_breakers[s], now).answer]
    /\ UNCHANGED <<threads, now, request_timestamps, admitted, streak>>

NextCB ==
    \/ \E d \in TickDeltas : Tick(d)
    \/ \E s \in mock_services : RecordSuccess(s)
    \/ \E s \in mock_services : RecordFailure(s)
    \/ \E s \in mock_services : IsOpen(s)

SpecCB == InitCB /\ [][NextCB]_vars

----------------------------------------------------------------------------
(* Properties of the breaker *)

\* C4: from CLOSED, a record_failure call opens the breaker exactly when it is
\* the failure_threshold-th failure since the last success (or since
\* creation), never earlier; nothing but record_failure takes the breaker out
\* of CLOSED; and every record_success leaves failure_count at 0.
C4_OpensAtThreshold ==
    [][\A s \in mock_services :
        /\ (circuit_breakers[s].state = "CLOSED"
              /\ last'.op = "record_failure" /\ last'.arg = s)
           => (circuit_breakers'[s].state = "OPEN"
                 <=> streak'[s] = circuit_breakers[s].failure_threshold)
        /\ (circuit_breakers[s].state = "CLOSED"
              /\ circuit_breakers'[s].state # "CLOSED")
           => (last'.op = "record_failure" /\ last'.arg = s)
        /\ (last'.op = "record_success" /\ last'.arg = s)
           => circuit_breakers'[s].failure_count = 0
      ]_vars

\* a record_failure call has just opened a CLOSED breaker of threshold 3 as
\* the third failure since the last success
C4_Witness ==
    /\ last.op = "record_failure" /\ last.was = "CLOSED"
    /\ circuit_breakers[last.arg].state = "OPEN"
    /\ circuit_breakers[last.arg].failure_threshold = 3
    /\ streak[last.arg] = 3

\* C5: an OPEN breaker becomes HALF-OPEN only in an is_open call on it made
\* when more than reset_timeout_seconds have passed since last_failure_time;
\* a tick of the clock and an earlier is_open call leave it OPEN.
C5_HalfOpenOnlyLazily ==
    [][\A s \in mock_services :
        /\ (circuit_breakers[s].state = "OPEN"
              /\ circuit_breakers'[s].state = "HALF-OPEN")
           => /\ last'.op = "is_open" /\ last'.arg = s
              /\ now - circuit_breakers[s].last_failure_time
                    > circuit_breakers[s].reset_timeout_seconds
        /\ (circuit_breakers[s].state = "OPEN" /\ last'.op = "tick")
           => circuit_breakers'[s].state = "OPEN"
        /\ (circuit_breakers[s].state = "OPEN"
              /\ last'.op = "is_open" /\ last'.arg = s
              /\ now - circuit_breakers[s].last_failure_time
                    <= circuit_breakers[s].reset_timeout_seconds)
           => circuit_breakers'[s].state = "OPEN"
      ]_vars

\* an is_open call has just moved an OPEN breaker to HALF-OPEN
C5_Witness ==
    /\ last.op = "is_open" /\ last.was = "OPEN"
    /\ circuit_breakers[last.arg].state = "HALF-OPEN"

\* C6: on a HALF-OPEN breaker, record_success gives CLOSED with failure_count 0
\* and last_failure_time cleared, and record_failure gives OPEN with
\* last_failure_time set to the time of the call, whatever failure_count and
\* failure_threshold are.
C6_HalfOpenTrial ==
    [][\A s \in mock_services :
        circuit_breakers[s].state = "HALF-OPEN" =>
          /\ (last'.op = "record_success" /\ last'.arg = s)
             => /\ circuit_breakers'[s].state = "CLOSED"
                /\ circuit_breakers'[s].failure_count = 0
                /\ circuit_breakers'[s].last_failure_time = None
          /\ (last'.op = "record_failure" /\ last'.arg = s)
             => /\ circuit_breakers'[s].state = "OPEN"
                /\ circuit_breakers'[s].last_failure_time = now'
      ]_vars

\* a record_failure call has just sent a HALF-OPEN breaker back to OPEN, with
\* a failure_count already above the threshold and a later failure time
C6_Witness ==
    /\ last.op = "record_failure" /\ last.was = "HALF-OPEN"
    /\ circuit_breakers[last.arg].state = "OPEN"
    /\ circuit_breakers[last.arg].failure_count
          > circuit_breakers[last.arg].failure_threshold
    /\ circuit_breakers[last.arg].last_failure_time = now
    /\ now > 0

----------------------------------------------------------------------------
(* The pipeline: APIGateway.process_request and what it calls *)

\* the api_keys table: the keys with is_active = TRUE
ActiveKeys == {"key-1"}

\* API keys a caller may present; "" is a missing key
ApiKeys == {"", "key-1", "key-2"}

\* inbound headers: the API key under either casing the gateway looks for
RequestHeaders ==
    {Dict({<<"X-API-KEY", "key-1">>}),
     Dict({<<"X-Api-Key", "key-1">>, <<"User-Agent", "curl">>})}

\* inbound headers of the wider input model: the key under the casing that
\* Werkzeug gives it, under the casing of the client, an empty key and no key
\* (the headers of a request hold one entry per header name)
AllRequestHeaders ==
    RequestHeaders \cup
    {Dict({<<"X-Api-Key", "key-2">>}),
     Dict({<<"X-Api-Key", "">>, <<"User-Agent", "curl">>}),
     Dict({<<"User-Agent", "curl">>})}

\* what a service handler may do when it is called: return a payload and a
\* status code, or raise
HandlerResults ==
    {[kind |-> "return", status |-> 200,
      payload |-> Dict({<<"data", "rows">>, <<"status", "success">>,
                        <<"message", "fetched">>})],
     [kind |-> "return", status |-> 399, payload |-> Dict({})],
     [kind |-> "return", status |-> 400,
      payload |-> Dict({<<"error", "bad request">>})],
     [kind |-> "return", status |-> 499, payload |-> Dict({})],
     [kind |-> "return", status |-> 500,
      payload |-> Dict({<<"message", "internal error">>,
                        <<"status", "error">>})],
     [kind |-> "return", status |-> 503, payload |-> NoPayload],
     [kind |-> "raise", status |-> 0, payload |-> NoPayload]}

\* the arguments of one APIGateway._log_request call
LogRecord(endpoint, method, status_code, response_time_ms, is_error) ==
    [endpoint |-> endpoint, method |-> method, status_code |-> status_code,
     response_time_ms |-> response_time_ms, is_error |-> is_error]

\* the log writes a failing database leaves without a row, raising
\* (no try/except around the insert)
_log_request_raises(record, db_ok) ==
    [rows |-> IF db_ok THEN <<record>> ELSE <<>>, raised |-> ~db_ok]

\* APIGateway._log_request: the rows it inserts into api_logs and whether it
\* raises; db_ok is whether the database accepts the insert
_log_request(record, db_ok) ==
    [rows |-> IF db_ok THEN <<record>> ELSE <<>>, raised |-> FALSE]

\* the time a handler takes, in milliseconds (under one tick of the clock)
HandlerMs == 120

\* the breaker update counting every status >= 400 as a failure
breaker_update_counts_4xx(cb, status_code, t) ==
    IF 200 <= status_code /\ status_code < 400
    THEN [cb |-> record_success(cb), successes |-> 1, failures |-> 0]
    ELSE IF status_code >= 400
    THEN [cb |-> record_failure(cb, t), successes |-> 0, failures |-> 1]
    ELSE [cb |-> cb, successes |-> 0, failures |-> 0]

\* gateway.py:229-236: the breaker after the handler returned status_code
breaker_update(cb, status_code, t) ==
    IF 200 <= status_code /\ status_code < 400
    THEN [cb |-> record_success(cb), successes |-> 1, failures |-> 0]
    ELSE IF status_code >= 500
    THEN [cb |-> record_failure(cb, t), successes |-> 0, failures |-> 1]
    ELSE [cb |-> cb, successes |-> 0, failures |-> 0]

\* the open-circuit rejection recording a failure on the breaker
circuit_open_rejection_counts(service_name, full_path, method, db_ok, cb, t) ==
    LET r == _transform_response(service_name,
                 Dict({<<"message", UnavailableMessage(service_name)>>,
                       <<"status", "error">>}), 503, t)
        rec == LogRecord(full_path, method, 503, 0, TRUE)
        l == _log_request(rec, db_ok)
    IN  [response_data |-> r, status_code |-> 503, cb |-> record_failure(cb, t),
         invoked |-> FALSE, successes |-> 0, failures |-> 1,
         raised |-> l.raised, logs |-> <<rec>>, rows |-> l.rows,
         handler_headers |-> NoPayload, handler_json |-> NoPayload]

\* gateway.py:201-206: the circuit is open; the rejection is logged here
circuit_open_rejection(service_name, full_path, method, db_ok, cb, t) ==
    LET r == _transform_response(service_name,
                 Dict({<<"message", UnavailableMessage(service_name)>>,
                       <<"status", "error">>}), 503, t)
        rec == LogRecord(full_path, method, 503, 0, TRUE)
        l == _log_request(rec, db_ok)
    IN  [response_data |-> r, status_code |-> 503, cb |-> cb,
         invoked |-> FALSE, successes |-> 0, failures |-> 0,
         raised |-> l.raised, logs |-> <<rec>>, rows |-> l.rows,
         handler_headers |-> NoPayload, handler_json |-> NoPayload]

\* the dispatch whose except branch does not call record_failure
dispatch_forgets_raise(service_name, headers, json_data, result, cb, t) ==
    LET th == _transform_request_headers(headers)
        tj == _transform_request_json(json_data, t)
    IN  IF result.kind = "raise"
        THEN [response_data |->
                  _transform_response(service_name,
                      Dict({<<"message", CouldNotProcessMessage(service_name)>>,
                            <<"status", "error">>}), 500, t),
              status_code |-> 500, cb |-> cb,
              invoked |-> TRUE, successes |-> 0, failures |-> 0,
              raised |-> FALSE, logs |-> <<>>, rows |-> <<>>,
              handler_headers |-> th, handler_json |-> tj]
        ELSE LET u == breaker_update(cb, result.status, t)
             IN  [response_data |->
                      _transform_response(service_name, result.payload,
                                          result.status, t),
                  status_code |-> result.status, cb |-> u.cb,
                  invoked |-> TRUE, successes |-> u.successes,
                  failures |-> u.failures, raised |-> FALSE, logs |-> <<>>,
                  rows |-> <<>>, handler_headers |-> th, handler_json |-> tj]

\* the dispatch without its except branch: what the handler raises goes up
\* to process_request
dispatch_reraises(service_name, headers, json_data, result, cb, t) ==
    LET th == _transform_request_headers(headers)
        tj == _transform_request_json(json_data, t)
    IN  IF result.kind = "raise"
        THEN [response_data |-> NoPayload, status_code |-> 500, cb |-> cb,
              invoked |-> TRUE, successes |-> 0, failures |-> 0,
              raised |-> TRUE, logs |-> <<>>, rows |-> <<>>,
              handler_headers |-> th, handler_json |-> tj]
        ELSE LET u == breaker_update(cb, result.status, t)
             IN  [response_data |->
                      _transform_response(service_name, result.payload,
                                          result.status, t),
                  status_code |-> result.status, cb |-> u.cb,
                  invoked |-> TRUE, successes |-> u.successes,
                  failures |-> u.failures, raised |-> FALSE, logs |-> <<>>,
                  rows |-> <<>>, handler_headers |-> th, handler_json |-> tj]

\* gateway.py:208-250: the request is dispatched to the handler, which does
\* "result"
dispatch(service_name, headers, json_data, result, cb, t) ==
    LET th == _transform_request_headers(headers)
        tj == _transform_request_json(json_data, t)
    IN  IF result.kind = "raise"
        THEN [response_data |->
                  _transform_response(service_name,
                      Dict({<<"message", CouldNotProcessMessage(service_name)>>,
                            <<"status", "error">>}), 500, t),
              status_code |-> 500, cb |-> record_failure(cb, t),
              invoked |-> TRUE, successes |-> 0, failures |-> 1,
              raised |-> FALSE, logs |-> <<>>, rows |-> <<>>,
              handler_headers |-> th, handler_json |-> tj]
        ELSE LET u == breaker_update(cb, result.status, t)
             IN  [response_data |->
                      _transform_response(service_name, result.payload,
                                          result.status, t),
                  status_code |-> result.status, cb |-> u.cb,
                  invoked |-> TRUE, successes |-> u.successes,
                  failures |-> u.failures, raised |-> FALSE, logs |-> <<>>,
                  rows |-> <<>>, handler_headers |-> th, handler_json |-> tj]

\* APIGateway.handle_service_request for a registered service, at time t
handle_service_request(service_name, full_path, method, headers, json_data, result, db_ok, cb, t) ==
    IF is_open_raises(cb)
    THEN [response_data |-> NoPayload, status_code |-> 500, cb |-> cb,
          invoked |-> FALSE, successes |-> 0, failures |-> 0, raised |-> TRUE,
          logs |-> <<>>, rows |-> <<>>, handler_headers |-> NoPayload,
          handler_json |-> NoPayload]
    ELSE IF is_open(cb, t).answer
    THEN circuit_open_rejection(service_name, full_path, method, db_ok,
                                is_open(cb, t).cb, t)
    ELSE dispatch(service_name, headers, json_data, result,
                  is_open(cb, t).cb, t)

\* the lookup failure leaving status_code at its default of gateway.py:261
service_not_found_default(full_path, method, db_ok, cb) ==
    LET rec == LogRecord(full_path, method, 500, 0, TRUE)
        l == _log_request(rec, db_ok)
    IN  [response_data |-> Dict({<<"message", "Service not found.">>,
                                 <<"status", "error">>}),
         status_code |-> 500, cb |-> cb, invoked |-> FALSE,
         successes |-> 0, failures |-> 0, raised |-> l.raised,
         logs |-> <<rec>>, rows |-> l.rows,
         handler_headers |-> NoPayload, handler_json |-> NoPayload]

\* the lookup failure leaving is_error at its default of gateway.py:259
service_not_found_not_error(full_path, method, db_ok, cb) ==
    LET rec == LogRecord(full_path, method, 404, 0, FALSE)
        l == _log_request(rec, db_ok)
    IN  [response_data |-> Dict({<<"message", "Service not found.">>,
                                 <<"status", "error">>}),
         status_code |-> 404, cb |-> cb, invoked |-> FALSE,
         successes |-> 0, failures |-> 0, raised |-> l.raised,
         logs |-> <<rec>>, rows |-> l.rows,
         handler_headers |-> NoPayload, handler_json |-> NoPayload]

\* gateway.py:265-269 and the finally block: the service name is not a key
\* of mock_services
service_not_found(full_path, method, db_ok, cb) ==
    LET rec == LogRecord(full_path, method, 404, 0, TRUE)
        l == _log_request(rec, db_ok)
    IN  [response_data |-> Dict({<<"message", "Service not found.">>,
                                 <<"status", "error">>}),
         status_code |-> 404, cb |-> cb, invoked |-> FALSE,
         successes |-> 0, failures |-> 0, raised |-> l.raised,
         logs |-> <<rec>>, rows |-> l.rows,
         handler_headers |-> NoPayload, handler_json |-> NoPayload]

\* gateway.py:275-281: the except block of process_request, for what
\* handle_service_request returned or raised
gateway_error(h, t) ==
    IF h.raised
    THEN [h EXCEPT
            !.response_data =
               _transform_response("gateway_error",
                   Dict({<<"message", "An unhandled gateway error occurred.">>,
                         <<"status", "error">>}), 500, t),
            !.status_code = 500]
    ELSE h

\* gateway.py:283-288: the finally block of process_request logs the outcome
log_outcome(out, full_path, method, db_ok) ==
    LET rec == LogRecord(full_path, method, out.status_code,
                         IF out.invoked THEN HandlerMs ELSE 0,
                         out.status_code >= 400)
    IN  [out EXCEPT !.logs = Append(@, rec),
                    !.rows = @ \o _log_request(rec, db_ok).rows,
                    !.raised = _log_request(rec, db_ok).raised]

\* APIGateway.process_request at time t, "cb" being the breaker of the
\* service when it is registered; "logs" are the _log_request calls, in order
process_request(service_name, full_path, method, headers, json_data, result, db_ok, cb, t) ==
    IF service_name \notin mock_services
    THEN service_not_found(full_path, method, db_ok, cb)
    ELSE log_outcome(
             gateway_error(
                 handle_service_request(service_name, full_path, method,
                     headers, json_data, result, db_ok, cb, t), t),
             full_path, method, db_ok)

Init ==
    /\ now = 0
    /\ request_timestamps = [c \in Clients |-> <<>>]
    /\ admitted = [c \in Clients |-> <<>>]
    /\ circuit_breakers =
           [s \in mock_services |->
               CircuitBreaker(failure_threshold, reset_timeout_seconds)]
    /\ streak = [s \in mock_services |-> 0]
    /\ last = NoCall
    /\ threads = [th \in Threads |-> Idle]

\* the breaker handed to process_request for a name that has none
NoBreaker == CircuitBreaker(failure_threshold, reset_timeout_seconds)

\* the breaker process_request finds for a service name
breaker_of(service_name) ==
    IF service_name \in mock_services
    THEN circuit_breakers[service_name] ELSE NoBreaker

\* the log records of a call that began at start_time and ends now
elapsed(records, start_time) ==
    [i \in 1..Len(records) |->
        [records[i] EXCEPT !.response_time_ms = @ + 1000 * (now - start_time)]]

\* process_request, begun at start_time, returns r: the state it leaves
Returns(service_name, headers, result, db_ok, was, start_time, r) ==
    /\ circuit_breakers' =
           IF service_name \in mock_services
           THEN [circuit_breakers EXCEPT ![service_name] = r.cb]
           ELSE circuit_breakers
    /\ streak' =
           IF service_name \in mock_services
           THEN [streak EXCEPT ![service_name] =
                    IF r.successes > 0 THEN 0 ELSE @ + r.failures]
           ELSE streak
    /\ last' = [NoCall EXCEPT
                  !.op = "process_request", !.arg = service_name,
                  !.was = was,
                  !.status_code = r.status_code,
                  !.response_data = r.response_data,
                  !.invoked = r.invoked,
                  !.result = IF r.invoked THEN result ELSE NoResult,
                  !.successes = r.successes, !.failures = r.failures,
                  !.logs = elapsed(r.logs, start_time), !.raised = r.raised,
                  !.headers = headers, !.db_ok = db_ok,
                  !.rows = elapsed(r.rows, start_time),
                  !.handler_headers = r.handler_headers,
                  !.handler_json = r.handler_json,
                  !.start_time = start_time]
    /\ UNCHANGED <<threads, now, request_timestamps, admitted>>

ProcessRequest(service_name, headers, result, db_ok) ==
    Returns(service_name, headers, result, db_ok,
            breaker_of(service_name).state, now,
            process_request(service_name, service_name, "GET", headers,
                NoPayload, result, db_ok, breaker_of(service_name), now))

\* APIGateway._authenticate_request; db_ok is whether the query succeeds
_authenticate_request(api_key, db_ok) ==
    IF api_key = "" THEN FALSE
    ELSE IF ~db_ok THEN FALSE
    ELSE api_key \in ActiveKeys

AuthenticateRequest(api_key, db_ok) ==
    /\ last' = [NoCall EXCEPT !.op = "_authenticate_request", !.arg = api_key,
                              !.answer = _authenticate_request(api_key, db_ok)]
    /\ UNCHANGED <<threads, now, request_timestamps, admitted, circuit_breakers, streak>>

Next ==
    \/ \E d \in TickDeltas : Tick(d)
    \/ \E s \in ServiceNames, h \in RequestHeaders, r \in HandlerResults :
          ProcessRequest(s, h, r, TRUE)
    \/ \E k \in ApiKeys, ok \in BOOLEAN : AuthenticateRequest(k, ok)

Spec == Init /\ [][Next]_vars

----------------------------------------------------------------------------
(* Properties of the pipeline *)

\* C1: every process_request call makes exactly one _log_request call, on
\* every path.
C1_ExactlyOneLog ==
    last.op = "process_request" => Len(last.logs) = 1

\* C7: a request for a service whose breaker is OPEN with the reset timeout
\* not yet elapsed is answered with 503, the handler is not invoked, and the
\* breaker stays OPEN.
C7_OpenRejects ==
    [][\A s \in mock_services :
        (/\ circuit_breakers[s].state = "OPEN"
         /\ now - circuit_breakers[s].last_failure_time
               <= circuit_breakers[s].reset_timeout_seconds
         /\ last'.op = "process_request" /\ last'.arg = s)
        => /\ last'.status_code = 503
           /\ ~last'.invoked
           /\ circuit_breakers'[s].state = "OPEN"
      ]_vars

\* a request has just been rejected with 503 by a breaker that three 5xx
\* results opened and whose timeout has not elapsed
C7_Witness ==
    /\ last.op = "process_request" /\ last.was = "OPEN"
    /\ last.status_code = 503 /\ ~last.invoked
    /\ circuit_breakers[last.arg].state = "OPEN"
    /\ circuit_breakers[last.arg].failure_count = 3
    /\ now - circuit_breakers[last.arg].last_failure_time = 10

\* C8: a request rejected because the circuit is open leaves failure_count
\* and last_failure_time of the breaker as they were, and calls neither
\* record_failure nor record_success.
C8_RejectionKeepsFailures ==
    [][\A s \in mock_services :
        (/\ circuit_breakers[s].state = "OPEN"
         /\ last'.op = "process_request" /\ last'.arg = s)
        => /\ ~last'.invoked
           /\ last'.failures = 0 /\ last'.successes = 0
           /\ circuit_breakers'[s].failure_count
                 = circuit_breakers[s].failure_count
           /\ circuit_breakers'[s].last_failure_time
                 = circuit_breakers[s].last_failure_time
      ]_vars

\* a request has just been rejected by an open circuit whose timeout had
\* elapsed
C8_Witness ==
    /\ last.op = "process_request" /\ last.was = "OPEN"
    /\ last.status_code = 503
    /\ circuit_breakers[last.arg].state = "HALF-OPEN"
    /\ circuit_breakers[last.arg].failure_count >= 3
    /\ circuit_breakers[last.arg].last_failure_time # None

\* C9: when the handler returns a status in 400..499 every breaker is left
\* as it was, so 4xx results never open a circuit.
C9_ClientErrorKeepsBreaker ==
    [][(/\ last'.op = "process_request" /\ last'.invoked
        /\ last'.result.kind = "return"
        /\ last'.result.status >= 400 /\ last'.result.status <= 499)
       => /\ circuit_breakers' = circuit_breakers
          /\ last'.failures = 0 /\ last'.successes = 0
      ]_vars

\* the handler has just returned 499 to a CLOSED breaker that one more
\* failure would have opened
C9_Witness ==
    /\ last.op = "process_request" /\ last.invoked
    /\ last.result.kind = "return" /\ last.result.status = 499
    /\ circuit_breakers[last.arg].state = "CLOSED"
    /\ circuit_breakers[last.arg].failure_count = 2

\* C10: a request whose handler returned 200..399 makes one record_success
\* call and nothing else on the breaker; one whose handler returned >= 500 or
\* raised makes one record_failure call and nothing else; a request rejected
\* before dispatch (unknown service, open circuit) and an authentication
\* check make neither call.
C10_OneOutcomePerAttempt ==
    [][/\ \A s \in mock_services :
            (last'.op = "process_request" /\ last'.arg = s) =>
              /\ (last'.invoked /\ last'.result.kind = "return"
                    /\ last'.result.status >= 200 /\ last'.result.status < 400)
                 => /\ last'.successes = 1 /\ last'.failures = 0
                    /\ circuit_breakers'[s] = record_success(circuit_breakers[s])
              /\ (last'.invoked
                    /\ (last'.result.kind = "raise" \/ last'.result.status >= 500))
                 => /\ last'.successes = 0 /\ last'.failures = 1
                    /\ circuit_breakers'[s]
                          = record_failure(circuit_breakers[s], now)
              /\ ~last'.invoked
                 => /\ last'.successes = 0 /\ last'.failures = 0
                    /\ circuit_breakers'[s].failure_count
                          = circuit_breakers[s].failure_count
                    /\ circuit_breakers'[s].last_failure_time
                          = circuit_breakers[s].last_failure_time
       /\ (last'.op = "process_request" /\ last'.arg \notin mock_services)
             => /\ ~last'.invoked /\ last'.successes = 0 /\ last'.failures = 0
                /\ circuit_breakers' = circuit_breakers
       /\ last'.op = "_authenticate_request"
             => circuit_breakers' = circuit_breakers
       /\ \A s \in mock_services :
            (last'.op = "process_request" /\ last'.arg # s)
               => circuit_breakers'[s] = circuit_breakers[s]
      ]_vars

\* a handler has just raised and the breaker of its service received one
\* record_failure
C10_Witness ==
    /\ last.op = "process_request" /\ last.invoked
    /\ last.result.kind = "raise"
    /\ last.failures = 1 /\ last.successes = 0
    /\ circuit_breakers[last.arg].failure_count = 1

\* C11: when the handler raises, process_request returns status 500 with an
\* error payload (a dict with "status" "error" and a "message"), the breaker
\* of the service has received one record_failure at the time of the call,
\* and no exception leaves process_request.
C11_RaiseBecomes500 ==
    (last.op = "process_request" /\ last.invoked /\ last.result.kind = "raise")
    => /\ last.status_code = 500
       /\ last.response_data.isdict
       /\ <<"status", "error">> \in last.response_data.kv
       /\ Has(last.response_data, "message")
       /\ ~last.raised
       /\ last.failures = 1 /\ last.successes = 0
       /\ circuit_breakers[last.arg].failure_count >= 1
       /\ circuit_breakers[last.arg].last_failure_time = now
       /\ streak[last.arg] >= 1

\* the handler has just raised on the trial request of a HALF-OPEN breaker,
\* which is OPEN again
C11_Witness ==
    /\ last.op = "process_request" /\ last.invoked
    /\ last.result.kind = "raise" /\ last.was = "HALF-OPEN"
    /\ last.status_code = 500
    /\ circuit_breakers[last.arg].state = "OPEN"
    /\ circuit_breakers[last.arg].failure_count = 4

C15_LogMatchesOutcome ==
    last.op = "process_request"
    => /\ Len(last.logs) >= 1
       /\ \A i \in DOMAIN last.logs :
             /\ last.logs[i].is_error = (last.logs[i].status_code >= 400)
             /\ last.logs[i].status_code = last.status_code

\* a call whose handler returned 399 has just logged a record that is no
\* error
C15_Witness ==
    /\ last.op = "process_request" /\ last.invoked
    /\ last.status_code = 399
    /\ Len(last.logs) = 1 /\ ~last.logs[1].is_error

\* C26: a request for a registered service is rejected, with 503 and without
\* a handler call, exactly when its breaker was OPEN as the call began; this
\* includes the call whose is_open moves the breaker to HALF-OPEN, and the
\* handler is invoked by a request that finds the breaker HALF-OPEN.
C26_AnswersForStateFound ==
    (last.op = "process_request" /\ last.arg \in mock_services)
    => /\ (last.was = "OPEN") <=> ~last.invoked
       /\ last.was = "OPEN" => last.status_code = 503
       /\ last.was = "HALF-OPEN" => last.invoked

\* the request whose is_open call found the timeout elapsed has been rejected
\* with 503, leaving the breaker HALF-OPEN
C26_Witness ==
    /\ last.op = "process_request" /\ last.was = "OPEN"
    /\ circuit_breakers[last.arg].state = "HALF-OPEN"
    /\ last.status_code = 503 /\ ~last.invoked
    /\ now - circuit_breakers[last.arg].last_failure_time = 11

----------------------------------------------------------------------------
(* Recovery: breakers that failures have opened, a handler that answers 2xx *)
(* whenever it is invoked, requests that keep arriving and a running clock  *)

\* a breaker that failure_threshold failed requests at time 0 have opened
OpenedAtStart ==
    record_failure(
        record_failure(
            record_failure(
                CircuitBreaker(failure_threshold, reset_timeout_seconds), 0),
            0),
        0)

InitRecover ==
    /\ now = 0
    /\ request_timestamps = [c \in Clients |-> <<>>]
    /\ admitted = [c \in Clients |-> <<>>]
    /\ circuit_breakers \in
           [mock_services ->
               {CircuitBreaker(failure_threshold, reset_timeout_seconds),
                OpenedAtStart}]
    /\ streak = [s \in mock_services |->
                    circuit_breakers[s].failure_count]
    /\ last = NoCall
    /\ threads = [th \in Threads |-> Idle]

\* the handler results with a 2xx status
HandlerResults2xx ==
    {r \in HandlerResults :
        r.kind = "return" /\ 200 <= r.status /\ r.status < 300}

\* a request for service s is processed and its handler, if invoked, answers 2xx
Served(s) ==
    \E h \in RequestHeaders, r \in HandlerResults2xx :
        ProcessRequest(s, h, r, TRUE)

NextRecover ==
    \/ \E d \in TickDeltas : Tick(d)
    \/ \E s \in mock_services : Served(s)

\* time keeps advancing (up to the end of the model's clock) and the requests
\* for every service keep being processed
SpecRecover ==
    /\ InitRecover /\ [][NextRecover]_vars
    /\ WF_vars(\E d \in TickDeltas : Tick(d))
    /\ \A s \in mock_services : WF_vars(Served(s))

\* C25: an OPEN breaker, with requests for its service arriving, time
\* advancing and the handler answering 2xx whenever invoked, leads to a
\* request for the service that is dispatched and leaves the breaker CLOSED.
C25_OpenRecovers ==
    \A s \in mock_services :
        (circuit_breakers[s].state = "OPEN")
        ~> (/\ circuit_breakers[s].state = "CLOSED"
            /\ last.op = "process_request" /\ last.arg = s /\ last.invoked)

\* the trial request of a breaker that was opened at time 0 has been
\* dispatched and has closed the breaker
C25_Witness ==
    /\ last.op = "process_request" /\ last.was = "HALF-OPEN" /\ last.invoked
    /\ last.status_code = 200
    /\ circuit_breakers[last.arg].state = "CLOSED"
    /\ circuit_breakers[last.arg].failure_count = 0
    /\ now > reset_timeout_seconds

----------------------------------------------------------------------------
(* The pipeline with the wider inputs: requests with and without an API key, *)
(* and a database that may refuse the log insert                             *)

\* the handler results of the wider input model
HandlerResultsIO ==
    {r \in HandlerResults : r.kind = "raise" \/ r.status \in {200, 500}}

\* one registered service and one that is not
ServiceNamesIO == {"users", "orders"}

NextIO ==
    \/ \E d \in TickDeltas : Tick(d)
    \/ \E s \in ServiceNamesIO, h \in AllRequestHeaders, r \in HandlerResultsIO,
          ok \in BOOLEAN :
          ProcessRequest(s, h, r, ok)

SpecIO == Init /\ [][NextIO]_vars

\* C12: a request whose headers hold no API key, or an empty one, is answered
\* by process_request with 401, the handler is not invoked, the breaker is
\* untouched and the one log record has status 401, is an error and has
\* response time 0.
C12_MissingKeyIs401 ==
    (last.op = "process_request" /\ HeadersGet(last.headers, "X-API-KEY") = "")
    => /\ last.status_code = 401
       /\ ~last.invoked
       /\ last.successes = 0 /\ last.failures = 0
       /\ last.logs = <<LogRecord(last.arg, "GET", 401, 0, TRUE)>>

\* what a call whose insert failed shows, against the same call with an
\* insert that succeeds
SameOutcome(failed, twin) ==
    /\ failed.status_code = twin.status_code
    /\ failed.response_data = twin.response_data
    /\ ~failed.raised /\ ~twin.raised
    /\ failed.logs = twin.logs
    /\ failed.rows = <<>> /\ twin.rows = twin.logs

\* C16: a process_request call whose log insert fails returns the payload and
\* status that the same call returns when the insert succeeds, raises nothing,
\* inserts no row, and leaves the breakers as the successful call leaves them
\* and the rate limiter's lists as they were.
C16_LogFailureChangesNothing ==
    [][(last'.op = "process_request" /\ ~last'.db_ok)
       => /\ SameOutcome(last',
               process_request(last'.arg, last'.arg, "GET", last'.headers,
                   NoPayload, last'.result, TRUE, breaker_of(last'.arg), now))
          /\ last'.arg \in mock_services
             => circuit_breakers'[last'.arg] =
                   process_request(last'.arg, last'.arg, "GET",
                       last'.headers, NoPayload, last'.result, TRUE,
                       breaker_of(last'.arg), now).cb
          /\ \A o \in mock_services \ {last'.arg} :
                circuit_breakers'[o] = circuit_breakers[o]
          /\ request_timestamps' = request_timestamps
      ]_vars

\* a request has just been rejected by an open circuit while the database was
\* down: two log writes were tried and no row was inserted
C16_Witness ==
    /\ last.op = "process_request" /\ ~last.db_ok
    /\ last.status_code = 503 /\ Len(last.logs) = 2
    /\ last.rows = <<>> /\ ~last.raised

----------------------------------------------------------------------------
(* The response transformation on its own: _transform_response applied to   *)
(* any payload and status, and applied again to what it returned            *)

\* the payloads handed to _transform_response: every dict over the keys it
\* looks at, and a value that is not a dict
ResponsePayloads ==
    {NoPayload} \cup
    {Dict(st \cup m \cup e \cup d) :
        st \in {{}, {<<"status", "error">>}, {<<"status", "success">>}},
        m \in {{}, {<<"message", "not found">>}},
        e \in {{}, {<<"error", "bad request">>}},
        d \in {{}, {<<"data", "rows">>}}}

StatusCodes == {200, 399, 400, 404, 500}

\* a service name and the name process_request uses at gateway.py:281
TransformedServices == {"users", "gateway_error"}

\* time passes and the record of the last call is kept
Elapse(d) ==
    /\ now + d <= MaxTime
    /\ now' = now + d
    /\ UNCHANGED <<threads, request_timestamps, admitted, circuit_breakers, streak, last>>

\* _transform_response(service_name, response_data, status_code)
TransformResponse(service_name, response_data, status_code) ==
    /\ last' = [NoCall EXCEPT
                   !.op = "_transform_response", !.arg = service_name,
                   !.result = [kind |-> "return", payload |-> response_data,
                               status |-> status_code],
                   !.response_data = _transform_response(service_name,
                                         response_data, status_code, now),
                   !.status_code = status_code]
    /\ UNCHANGED <<threads, now, request_timestamps, admitted, circuit_breakers, streak>>

\* _transform_response applied to the payload and status it returned last
TransformAgain ==
    /\ last.op \in {"_transform_response", "_transform_response_again"}
    /\ last' = [NoCall EXCEPT
                   !.op = "_transform_response_again", !.arg = last.arg,
                   !.result = [kind |-> "return",
                               payload |-> last.response_data,
                               status |-> last.status_code],
                   !.response_data = _transform_response(last.arg,
                                         last.response_data,
                                         last.status_code, now),
                   !.status_code = last.status_code]
    /\ UNCHANGED <<threads, now, request_timestamps, admitted, circuit_breakers, streak>>

NextTR ==
    \/ \E d \in TickDeltas : Elapse(d)
    \/ \E s \in TransformedServices, p \in ResponsePayloads, c \in StatusCodes :
          TransformResponse(s, p, c)
    \/ TransformAgain

SpecTR == Init /\ [][NextTR]_vars

\* C18: for a dict payload and a status of 400 or more, the payload that
\* _transform_response returns has "status" equal to "error" and has a
\* "message"; it has no "error" when the input had "error" and no "message";
\* the status code is returned as it came.
C18_ErrorShape ==
    (/\ last.op = "_transform_response"
     /\ last.result.payload.isdict /\ last.result.status >= 400)
    => /\ <<"status", "error">> \in last.response_data.kv
       /\ Has(last.response_data, "message")
       /\ (Has(last.result.payload, "error")
            /\ ~Has(last.result.payload, "message")
            => ~Has(last.response_data, "error"))
       /\ last.status_code = last.result.status

\* C19: _transform_response applied to a dict payload that it returned for a
\* status of 400 or more returns that payload and that status again, and the
\* payload holds one "message".
C19_Idempotent ==
    (/\ last.op = "_transform_response_again"
     /\ last.result.payload.isdict /\ last.result.status >= 400)
    => /\ last.response_data = last.result.payload
       /\ last.status_code = last.result.status
       /\ Cardinality({e \in last.response_data.kv : e[1] = "message"}) = 1

\* a payload whose "error" was renamed to "message" has been transformed a
\* second time, ten or more seconds after the first time
C19_Witness ==
    /\ last.op = "_transform_response_again" /\ now >= 10
    /\ last.result.status = 400
    /\ last.response_data.kv =
         {<<"status", "error">>, <<"message", "bad request">>}

----------------------------------------------------------------------------
(* The pipeline with a handler that takes time: process_request calls the   *)
(* handler in one step and the handler returns, if it does, in a later one  *)

\* process_request is inside the handler call of gateway.py:223
Waiting == last.op = "handler_called"

\* process_request up to the handler call: the breaker lets the request
\* through and the handler is called with the transformed request
CallHandler(service_name, headers) ==
    /\ ~Waiting
    /\ service_name \in mock_services
    /\ ~is_open_raises(circuit_breakers[service_name])
    /\ ~is_open(circuit_breakers[service_name], now).answer
    /\ circuit_breakers' =
           [circuit_breakers EXCEPT
               ![service_name] = is_open(@, now).cb]
    /\ last' = [NoCall EXCEPT
                   !.op = "handler_called", !.arg = service_name,
                   !.was = circuit_breakers[service_name].state,
                   !.invoked = TRUE, !.headers = headers,
                   !.handler_headers = _transform_request_headers(headers),
                   !.start_time = now]
    /\ UNCHANGED <<threads, now, request_timestamps, admitted, streak>>

\* the handler returns or raises, and process_request runs to its end; the
\* breaker was not open when the handler was called, so it is not now
HandlerReturns(result) ==
    /\ Waiting
    /\ Returns(last.arg, last.headers, result, TRUE, last.was,
               last.start_time,
               process_request(last.arg, last.arg, "GET", last.headers,
                   NoPayload, result, TRUE, circuit_breakers[last.arg], now))

\* a request that process_request answers without calling a handler: the
\* service is not registered, or its circuit is open
RejectRequest(service_name, headers) ==
    /\ ~Waiting
    /\ IF service_name \in mock_services
       THEN /\ ~is_open_raises(circuit_breakers[service_name])
            /\ is_open(circuit_breakers[service_name], now).answer
       ELSE TRUE
    /\ ProcessRequest(service_name, headers, NoResult, TRUE)

NextAsync ==
    \/ \E d \in TickDeltas : Elapse(d)
    \/ \E s \in ServiceNamesIO, h \in RequestHeaders : CallHandler(s, h)
    \/ \E r \in HandlerResultsIO : HandlerReturns(r)
    \/ \E s \in ServiceNamesIO, h \in RequestHeaders : RejectRequest(s, h)

SpecAsync == Init /\ [][NextAsync]_vars

\* time passes as long as the clock of the model allows; nothing makes a
\* handler return
SpecAsyncLive == SpecAsync /\ WF_vars(\E d \in TickDeltas : Elapse(d))

\* C17: every process_request call that has called a handler returns, also
\* when the handler never does (after the dispatch timeout, with a 504
\* response and a breaker failure).
C17_EveryCallReturns == Waiting ~> (last.op = "process_request")

----------------------------------------------------------------------------
(* Requests served by threads at the same time (the server of app.py:144 is *)
(* threaded, and the handlers sleep): every statement of is_open,           *)
(* record_success and record_failure that reads or writes the breaker is a  *)
(* step of its own, and other threads run between two steps.  The local     *)
(* statements of a call are taken together with the next such statement.    *)

\* the service the concurrent requests are for
ConcServices == {"users"}

\* what the handler does in the concurrent model: a 2xx and a 5xx answer
ConcResults ==
    {r \in HandlerResults : r.kind = "return" /\ r.status \in {200, 500}}

\* thread th goes on with statement pc
Goto(th, pc) == threads' = [threads EXCEPT ![th].pc = pc]

\* process_request of thread th returns: the call is recorded in "last"
Finished(th, status_code, response_data, logs, successes, failures) ==
    /\ threads' = [threads EXCEPT ![th] = Idle]
    /\ last' = [NoCall EXCEPT
                   !.op = "process_request", !.arg = threads[th].arg,
                   !.was = threads[th].was,
                   !.status_code = status_code,
                   !.response_data = response_data,
                   !.invoked = threads[th].result # NoResult,
                   !.result = threads[th].result,
                   !.successes = successes, !.failures = failures,
                   !.logs = elapsed(logs, threads[th].start_time),
                   !.rows = elapsed(logs, threads[th].start_time),
                   !.start_time = threads[th].start_time]

\* the handler of thread th has answered and the breaker has been updated
Answered(th, successes, failures) ==
    Finished(th, threads[th].result.status,
             _transform_response(threads[th].arg, threads[th].result.payload,
                                 threads[th].result.status, now),
             <<LogRecord(threads[th].arg, "GET", threads[th].result.status,
                         HandlerMs, threads[th].result.status >= 400)>>,
             successes, failures)

\* is_open has returned True to thread th: gateway.py:203-206 and :286
Rejected(th) ==
    Finished(th, 503,
             _transform_response(threads[th].arg,
                 Dict({<<"message", UnavailableMessage(threads[th].arg)>>,
                       <<"status", "error">>}), 503, now),
             <<LogRecord(threads[th].arg, "GET", 503, 0, TRUE),
               LogRecord(threads[th].arg, "GET", 503, 0, TRUE)>>, 0, 0)

\* gateway.py:257 to :46: a request for s arrives and is_open reads the
\* state; when it is not OPEN, is_open returns False and the handler is
\* called (gateway.py:223)
IsOpenReadsState(th, s) ==
    /\ threads[th].pc = "idle"
    /\ threads' = [threads EXCEPT ![th] =
           [Idle EXCEPT
               !.pc = IF circuit_breakers[s].state = "OPEN"
                      THEN "is_open_compare" ELSE "handler",
               !.arg = s, !.was = circuit_breakers[s].state,
               !.start_time = now]]
    /\ UNCHANGED <<now, request_timestamps, admitted, circuit_breakers, streak,
                   last>>

\* gateway.py:47: is_open subtracts last_failure_time from the time; with
\* None it raises TypeError, which process_request turns into a 500
\* (gateway.py:275-281)
IsOpenCompares(th) ==
    /\ threads[th].pc = "is_open_compare"
    /\ LET cb == circuit_breakers[threads[th].arg]
       IN  IF cb.last_failure_time = None
           THEN Finished(th, 500,
                    _transform_response("gateway_error",
                        Dict({<<"message",
                                "An unhandled gateway error occurred.">>,
                              <<"status", "error">>}), 500, now),
                    <<LogRecord(threads[th].arg, "GET", 500, 0, TRUE)>>, 0, 0)
           ELSE IF now - cb.last_failure_time > cb.reset_timeout_seconds
           THEN Goto(th, "is_open_set") /\ UNCHANGED last
           ELSE Rejected(th)
    /\ UNCHANGED <<now, request_timestamps, admitted, circuit_breakers, streak>>

\* gateway.py:48-50: is_open sets HALF-OPEN and returns True
IsOpenSetsHalfOpen(th) ==
    /\ threads[th].pc = "is_open_set"
    /\ circuit_breakers' =
           [circuit_breakers EXCEPT ![threads[th].arg].state = "HALF-OPEN"]
    /\ Rejected(th)
    /\ UNCHANGED <<now, request_timestamps, admitted, streak>>

\* gateway.py:223-233: the handler of thread th answers; for a 2xx
\* record_success assigns the state (gateway.py:31), for a 5xx record_failure
\* reads failure_count (gateway.py:36)
HandlerAnswers(th, result) ==
    /\ threads[th].pc = "handler" /\ threads[th].result = NoResult
    /\ IF result.status < 400
       THEN /\ circuit_breakers' =
                  [circuit_breakers EXCEPT ![threads[th].arg].state = "CLOSED"]
            /\ threads' = [threads EXCEPT ![th].pc = "record_success_count",
                                          ![th].result = result]
            /\ streak' = [streak EXCEPT ![threads[th].arg] = 0]
       ELSE /\ circuit_breakers[threads[th].arg].failure_count < MaxFailures
            /\ threads' = [threads EXCEPT
                  ![th].pc = "record_failure_count", ![th].result = result,
                  ![th].failure_count =
                      circuit_breakers[threads[th].arg].failure_count + 1]
            /\ streak' = [streak EXCEPT ![threads[th].arg] = @ + 1]
            /\ UNCHANGED circuit_breakers
    /\ UNCHANGED <<now, request_timestamps, admitted, last>>

\* gateway.py:32: record_success assigns failure_count
RecordSuccessCount(th) ==
    /\ threads[th].pc = "record_success_count"
    /\ circuit_breakers' =
           [circuit_breakers EXCEPT ![threads[th].arg].failure_count = 0]
    /\ Goto(th, "record_success_time")
    /\ UNCHANGED <<now, request_timestamps, admitted, streak, last>>

\* gateway.py:33: record_success assigns last_failure_time, and the call ends
RecordSuccessTime(th) ==
    /\ threads[th].pc = "record_success_time"
    /\ circuit_breakers' =
           [circuit_breakers EXCEPT
               ![threads[th].arg].last_failure_time = None]
    /\ Answered(th, 1, 0)
    /\ UNCHANGED <<now, request_timestamps, admitted, streak>>

\* gateway.py:36: record_failure stores the failure_count it has incremented
RecordFailureCount(th) ==
    /\ threads[th].pc = "record_failure_count"
    /\ circuit_breakers' =
           [circuit_breakers EXCEPT
               ![threads[th].arg].failure_count = threads[th].failure_count]
    /\ Goto(th, "record_failure_time")
    /\ UNCHANGED <<now, request_timestamps, admitted, streak, last>>

\* gateway.py:37: record_failure assigns last_failure_time
RecordFailureTime(th) ==
    /\ threads[th].pc = "record_failure_time"
    /\ circuit_breakers' =
           [circuit_breakers EXCEPT ![threads[th].arg].last_failure_time = now]
    /\ Goto(th, "record_failure_if")
    /\ UNCHANGED <<now, request_timestamps, admitted, streak, last>>

\* gateway.py:38: record_failure tests for CLOSED and the threshold
RecordFailureIf(th) ==
    /\ threads[th].pc = "record_failure_if"
    /\ LET cb == circuit_breakers[threads[th].arg]
       IN  IF cb.state = "CLOSED" /\ cb.failure_count >= cb.failure_threshold
           THEN Goto(th, "record_failure_open")
           ELSE Goto(th, "record_failure_elif")
    /\ UNCHANGED <<now, request_timestamps, admitted, circuit_breakers, streak,
                   last>>

\* gateway.py:41: record_failure tests for HALF-OPEN; the call ends when the
\* test fails
RecordFailureElif(th) ==
    /\ threads[th].pc = "record_failure_elif"
    /\ IF circuit_breakers[threads[th].arg].state = "HALF-OPEN"
       THEN Goto(th, "record_failure_open") /\ UNCHANGED last
       ELSE Answered(th, 0, 1)
    /\ UNCHANGED <<now, request_timestamps, admitted, circuit_breakers, streak>>

\* gateway.py:39 and :42: record_failure assigns OPEN, and the call ends
RecordFailureOpens(th) ==
    /\ threads[th].pc = "record_failure_open"
    /\ circuit_breakers' =
           [circuit_breakers EXCEPT ![threads[th].arg].state = "OPEN"]
    /\ Answered(th, 0, 1)
    /\ UNCHANGED <<now, request_timestamps, admitted, streak>>

NextConc ==
    \/ \E d \in TickDeltas : Elapse(d)
    \/ \E th \in Threads, s \in ConcServices : IsOpenReadsState(th, s)
    \/ \E th \in Threads : IsOpenCompares(th)
    \/ \E th \in Threads : IsOpenSetsHalfOpen(th)
    \/ \E th \in Threads, r \in ConcResults : HandlerAnswers(th, r)
    \/ \E th \in Threads : RecordSuccessCount(th)
    \/ \E th \in Threads : RecordSuccessTime(th)
    \/ \E th \in Threads : RecordFailureCount(th)
    \/ \E th \in Threads : RecordFailureTime(th)
    \/ \E th \in Threads : RecordFailureIf(th)
    \/ \E th \in Threads : RecordFailureElif(th)
    \/ \E th \in Threads : RecordFailureOpens(th)

SpecConc == Init /\ [][NextConc]_vars

\* C21: of the requests that found the breaker of a service HALF-OPEN, at
\* most one is inside the handler at a time.
C21_OneTrialAtATime ==
    \A s \in ConcServices :
        Cardinality({th \in Threads :
                        /\ threads[th].pc = "handler"
                        /\ threads[th].arg = s
                        /\ threads[th].was = "HALF-OPEN"}) <= 1

\* C23: in every state reached by requests served at the same time, a
\* breaker in state OPEN has last_failure_time set, so that the subtraction
\* in is_open is defined.
C23_OpenHasFailureTime ==
    \A s \in mock_services :
        circuit_breakers[s].state = "OPEN"
        => circuit_breakers[s].last_failure_time # None

\* C24: no step takes a breaker from OPEN to a state other than OPEN and
\* HALF-OPEN, also when requests are served at the same time.
C24_OpenLeavesToHalfOpen ==
    [][\A s \in mock_services :
          circuit_breakers[s].state = "OPEN"
          => circuit_breakers'[s].state \in {"OPEN", "HALF-OPEN"}
      ]_vars

----------------------------------------------------------------------------
(* The rate limiter: APIGateway.is_rate_limited *)

\* is_rate_limited with the limit test written ">"
is_rate_limited_one_more(timestamps, t) ==
    LET kept == SelectSeq(timestamps, LAMBDA ts : t - ts <= WINDOW_SECONDS)
    IN  IF Len(kept) > REQUEST_LIMIT_PER_MINUTE
        THEN [timestamps |-> kept, answer |-> TRUE]
        ELSE [timestamps |-> Append(kept, t), answer |-> FALSE]

\* is_rate_limited appending the time of the check before it tests the limit
is_rate_limited_records_first(timestamps, t) ==
    LET kept == SelectSeq(timestamps, LAMBDA ts : t - ts <= WINDOW_SECONDS)
    IN  IF Len(kept) >= REQUEST_LIMIT_PER_MINUTE
        THEN [timestamps |-> Append(kept, t), answer |-> TRUE]
        ELSE [timestamps |-> Append(kept, t), answer |-> FALSE]

\* APIGateway.is_rate_limited called at time t on a client's list: the list
\* it leaves behind and the value it returns
is_rate_limited(timestamps, t) ==
    LET kept == SelectSeq(timestamps, LAMBDA ts : t - ts <= WINDOW_SECONDS)
    IN  IF Len(kept) >= REQUEST_LIMIT_PER_MINUTE
        THEN [timestamps |-> kept, answer |-> TRUE]
        ELSE [timestamps |-> Append(kept, t), answer |-> FALSE]

IsRateLimited(c) ==
    LET r == is_rate_limited(request_timestamps[c], now)
    IN  /\ request_timestamps' = [request_timestamps EXCEPT ![c] = r.timestamps]
        /\ admitted' = IF r.answer THEN admitted
                       ELSE [admitted EXCEPT ![c] = Append(@, now)]
        /\ last' = [NoCall EXCEPT !.op = "is_rate_limited", !.arg = c,
                                  !.answer = r.answer]
        /\ UNCHANGED <<threads, now, circuit_breakers, streak>>

TickRL(d) ==
    /\ now + d <= MaxTimeRL
    /\ now' = now + d
    /\ last' = [NoCall EXCEPT !.op = "tick"]
    /\ UNCHANGED <<threads, request_timestamps, admitted, circuit_breakers, streak>>

NextRL ==
    \/ \E d \in TickDeltasRL : TickRL(d)
    \/ \E c \in Clients : IsRateLimited(c)

SpecRL == Init /\ [][NextRL]_vars

----------------------------------------------------------------------------
(* Properties of the rate limiter *)

\* C2: for every client, no 60-second window holds more than
\* REQUEST_LIMIT_PER_MINUTE admitted checks, so every further check inside a
\* full window was denied: in the history of a client's admitted checks,
\* which is in time order, the check that comes REQUEST_LIMIT_PER_MINUTE
\* places after another is more than 60 seconds later.
C2_AtMostLimitPerWindow ==
    \A c \in Clients : \A i \in DOMAIN admitted[c] :
        /\ (i > 1 => admitted[c][i - 1] <= admitted[c][i])
        /\ (i + REQUEST_LIMIT_PER_MINUTE \in DOMAIN admitted[c]
              => admitted[c][i + REQUEST_LIMIT_PER_MINUTE] - admitted[c][i]
                   > WINDOW_SECONDS)

\* a check has just been denied exactly 60 seconds after the first of the
\* ten admitted checks of its window
C2_Witness ==
    /\ last.op = "is_rate_limited" /\ last.answer
    /\ now = 60
    /\ Len(admitted[last.arg]) = REQUEST_LIMIT_PER_MINUTE
    /\ admitted[last.arg][1] = 0

\* C3: a denied check leaves in the client's list exactly the timestamps it
\* held that are at most 60 seconds old, its own time not among the added
\* ones, and leaves the lists of all other clients unchanged.
C3_DenyRecordsNothing ==
    [][\A c \in Clients :
        (last'.op = "is_rate_limited" /\ last'.arg = c /\ last'.answer)
        => /\ request_timestamps'[c] =
                 SelectSeq(request_timestamps[c],
                           LAMBDA ts : now - ts <= WINDOW_SECONDS)
           /\ \A o \in Clients \ {c} :
                 request_timestamps'[o] = request_timestamps[o]
      ]_vars

\* a check of one client has just been denied with its ten timestamps in
\* place, while another client has timestamps of its own
C3_Witness ==
    /\ last.op = "is_rate_limited" /\ last.answer
    /\ Len(request_timestamps[last.arg]) = REQUEST_LIMIT_PER_MINUTE
    /\ request_timestamps[last.arg][REQUEST_LIMIT_PER_MINUTE] < now
    /\ \E o \in Clients \ {last.arg} : Len(request_timestamps[o]) > 0

----------------------------------------------------------------------------
(* is_rate_limited called by threads at the same time for one client: the  *)
(* prune (gateway.py:136-139), the length check (gateway.py:141) and the    *)
(* append (gateway.py:144) are steps of their own                           *)

MaxAdmitted == 11      \* no call begins once a client has this many admissions

\* the client of the concurrent requests
ConcClients == {"10.0.0.1"}

\* is_rate_limited of thread th returns
RateLimitAnswers(th, answer) ==
    /\ threads' = [threads EXCEPT ![th] = Idle]
    /\ last' = [NoCall EXCEPT !.op = "is_rate_limited",
                              !.arg = threads[th].arg, !.answer = answer,
                              !.start_time = threads[th].current_time]

\* gateway.py:134-139: the call reads the clock and replaces the client's
\* list by its timestamps of the last 60 seconds
Prune(th, c) ==
    /\ threads[th].pc = "idle"
    /\ Len(admitted[c]) < MaxAdmitted
    /\ request_timestamps' =
           [request_timestamps EXCEPT ![c] =
               SelectSeq(@, LAMBDA ts : now - ts <= WINDOW_SECONDS)]
    /\ threads' = [threads EXCEPT ![th] =
           [Idle EXCEPT !.pc = "length_check", !.arg = c,
                        !.current_time = now]]
    /\ UNCHANGED <<now, admitted, circuit_breakers, streak, last>>

\* gateway.py:141-142: the call compares the length of the list with the
\* limit and returns True when the limit is reached
LengthCheck(th) ==
    /\ threads[th].pc = "length_check"
    /\ IF Len(request_timestamps[threads[th].arg]) >= REQUEST_LIMIT_PER_MINUTE
       THEN RateLimitAnswers(th, TRUE)
       ELSE Goto(th, "append") /\ UNCHANGED last
    /\ UNCHANGED <<now, request_timestamps, admitted, circuit_breakers, streak>>

\* gateway.py:144-145: the call appends its timestamp and returns False
AppendTimestamp(th) ==
    /\ threads[th].pc = "append"
    /\ request_timestamps' =
           [request_timestamps EXCEPT
               ![threads[th].arg] = Append(@, threads[th].current_time)]
    /\ admitted' =
           [admitted EXCEPT
               ![threads[th].arg] = Append(@, threads[th].current_time)]
    /\ RateLimitAnswers(th, FALSE)
    /\ UNCHANGED <<now, circuit_breakers, streak>>

NextConcRL ==
    \/ \E d \in TickDeltasRL : TickRL(d)
    \/ \E th \in Threads, c \in ConcClients : Prune(th, c)
    \/ \E th \in Threads : LengthCheck(th)
    \/ \E th \in Threads : AppendTimestamp(th)

SpecConcRL == Init /\ [][NextConcRL]_vars

\* the number of timestamps of the last 60 seconds in a list
InWindow(timestamps) ==
    Cardinality({i \in DOMAIN timestamps :
                    now - timestamps[i] <= WINDOW_SECONDS})

\* C22: with calls of one client running at the same time, the client's list
\* never holds more than REQUEST_LIMIT_PER_MINUTE timestamps of the last 60
\* seconds, and it holds the timestamp of every admitted call of the last 60
\* seconds.
C22_WindowHoldsUnderInterleaving ==
    \A c \in ConcClients :
        /\ InWindow(request_timestamps[c]) <= REQUEST_LIMIT_PER_MINUTE
        /\ InWindow(request_timestamps[c]) = InWindow(admitted[c])

----------------------------------------------------------------------------
(* The gateway of src/app.py: process_request with the rate limit check *)

\* what the handlers of app.py return (app.py:57-67)
AppResults ==
    {[kind |-> "return", status |-> 200, payload |-> Dict({<<"data", "rows">>})],
     [kind |-> "return", status |-> 500,
      payload |-> Dict({<<"error", "User Service Unavailable">>})]}

\* a registered endpoint and one that is not
AppEndpoints == {"users", "orders"}

\* request.remote_addr of the requests
AppClients == {"10.0.0.1"}

\* _log_request of app.py: cur.executr (app.py:126) raises AttributeError
\* inside the try, the except prints it, no row is inserted
app_log_request(record, db_ok) == [rows |-> <<>>, raised |-> FALSE]

\* the insert at the end of process_request of app.py (app.py:108-116)
app_insert(record, db_ok) ==
    [rows |-> IF db_ok THEN <<record>> ELSE <<>>, raised |-> FALSE]

\* process_request of app.py for a request of a client whose list of
\* timestamps is given, at time t
app_process_request(endpoint, method, result, db_ok, timestamps, t) ==
    LET rl == is_rate_limited(timestamps, t)
        known == endpoint \in mock_services
        status_code == IF known /\ result.kind = "return" THEN result.status
                       ELSE 500
        response_data ==
            IF ~known
            THEN Dict({<<"error", "EGateway internal processing error">>})
            ELSE IF result.kind = "return" THEN result.payload
            ELSE Dict({<<"error", "Gtaeway internal processing error">>})
        is_error == IF known /\ result.kind = "return"
                    THEN status_code >= 400 ELSE TRUE
        denied == LogRecord(endpoint, method, 429, 0, TRUE)
        served == LogRecord(endpoint, method, status_code,
                            IF known THEN HandlerMs ELSE 0, is_error)
    IN  IF rl.answer
        THEN [timestamps |-> rl.timestamps, answer |-> TRUE,
              response_data |->
                  Dict({<<"error",
                          "Too many requests. Please try again later.">>}),
              status_code |-> 429, invoked |-> FALSE,
              logs |-> <<denied>>,
              rows |-> app_log_request(denied, db_ok).rows,
              raised |-> app_log_request(denied, db_ok).raised]
        ELSE [timestamps |-> rl.timestamps, answer |-> FALSE,
              response_data |-> response_data,
              status_code |-> status_code, invoked |-> known,
              logs |-> <<served>>,
              rows |-> app_insert(served, db_ok).rows,
              raised |-> app_insert(served, db_ok).raised]

AppProcessRequest(c, endpoint, result, db_ok) ==
    LET r == app_process_request(endpoint, "GET", result, db_ok,
                                 request_timestamps[c], now)
    IN  /\ request_timestamps' = [request_timestamps EXCEPT ![c] = r.timestamps]
        /\ admitted' = IF r.answer THEN admitted
                       ELSE [admitted EXCEPT ![c] = Append(@, now)]
        /\ last' = [NoCall EXCEPT
                       !.op = "app.process_request", !.arg = endpoint,
                       !.answer = r.answer, !.result = result,
                       !.response_data = r.response_data,
                       !.status_code = r.status_code,
                       !.invoked = r.invoked, !.logs = r.logs,
                       !.rows = r.rows, !.raised = r.raised,
                       !.db_ok = db_ok]
        /\ UNCHANGED <<threads, now, circuit_breakers, streak>>

NextApp ==
    \/ \E d \in TickDeltasRL : TickRL(d)
    \/ \E c \in AppClients, e \in AppEndpoints, r \in AppResults, ok \in BOOLEAN :
          AppProcessRequest(c, e, r, ok)

SpecApp == Init /\ [][NextApp]_vars

\* C13: a request that the rate limiter denies is answered with 429 and an
\* error payload, no handler is invoked, no breaker changes, and, when the
\* database accepts inserts, one row with status 429, is_error true and
\* response time 0 is written to api_logs.
C13_DeniedIs429AndLogged ==
    (last.op = "app.process_request" /\ last.answer)
    => /\ last.status_code = 429
       /\ Has(last.response_data, "error")
       /\ ~last.invoked
       /\ last.successes = 0 /\ last.failures = 0
       /\ (last.db_ok
            => last.rows = <<LogRecord(last.arg, "GET", 429, 0, TRUE)>>)

====
